---- MODULE Spec2Model ----
(***************************************************************************)
(* Model of robot-gitee-cla: the two event handlers (handlePREvent,        *)
(* handleNoteEvent), the reconciliation pass (handle), the classification  *)
(* of commits (getPRCommitsAbout, getAuthorOfCommit) and the guidance      *)
(* comment (deleteSignGuide, signGuide, generateUnSignComment), against a  *)
(* pull request on the platform (labels, comments, commits) and a signing  *)
(* service.                                                                *)
(*                                                                         *)
(* Strings the code inspects are sequences: an email is a sequence of      *)
(* characters, a SHA a sequence of digits, a comment body a sequence of    *)
(* tokens (title, commit line, text).                                      *)
(*                                                                         *)
(* A handler invocation is one action (the handlers are synchronous and    *)
(* keep no state of their own); pass records what it saw and did, and the  *)
(* next event is handled once the handler has returned.                    *)
(***************************************************************************)
EXTENDS Integers, Sequences, FiniteSets, TLC

VARIABLES
    commits,      \* the pull request's commit listing on the platform
    byCommitter,  \* cfg.CheckByCommitter
    signedDB,     \* emails the signing service holds a signature for
    labels,       \* labels the pull request carries on the platform
    comments,     \* comments of the pull request, a sequence ordered by id
    configured,   \* whether the configuration has an item for the repository
    pass          \* what the last handler invocation saw and did

vars == <<commits, byCommitter, signedDB, labels, comments, configured, pass>>

(***************************** bounds **************************************)
MaxCommits == 1      \* commits of the pull request under Spec
MaxListed == 3       \* commits of the pull request under SpecClassify
MaxComments == 2     \* comments on the pull request
MaxFaults == 1       \* failing calls in one pass

(************************** program constants ******************************)
maxLengthOfSHA == 8

CLALabelYes == "cla/yes"
CLALabelNo == "cla/no"

\* cfg.LitePRCommitter
LitePRCommitter == [email |-> <<"w", "@", "x">>, name |-> "web-flow"]

(****************************** strings ************************************)
Space == " "

RECURSIVE TrimLeft(_)
TrimLeft(s) ==
    IF s # <<>> /\ Head(s) = Space THEN TrimLeft(Tail(s)) ELSE s

RECURSIVE TrimRight(_)
TrimRight(s) ==
    IF s # <<>> /\ s[Len(s)] = Space THEN TrimRight(SubSeq(s, 1, Len(s) - 1)) ELSE s

\* strings.Trim(s, " ")
Trim(s) == TrimRight(TrimLeft(s))

\* strings.HasPrefix
HasPrefix(s, prefix) ==
    /\ Len(s) >= Len(prefix)
    /\ SubSeq(s, 1, Len(prefix)) = prefix

\* utils.IsValidEmail: one "@" with a non-empty local part before it and a
\* non-empty domain after it, and no blank anywhere.
IsValidEmail(email) ==
    /\ \E i \in 2..(Len(email) - 1) :
          /\ email[i] = "@"
          /\ \A j \in 1..Len(email) : j # i => email[j] # "@"
    /\ \A j \in 1..Len(email) : email[j] # Space

(****************************** commits ************************************)
NoIdentity == [nil |-> TRUE, email |-> <<>>, name |-> ""]
Identity(email, name) == [nil |-> FALSE, email |-> email, name |-> name]

EmailA == <<"a", "@", "x">>
EmailAPadded == <<" ", "a", "@", "x", " ">>
EmailB == <<"b", "@", "x">>
EmailBad == <<"a", "x">>

\* sdk.PullRequestCommits: Sha, Commit (nil or {Message, Author, Committer})
\* author with blanks around the email, committer the lite-PR email
CommitPadded ==
    [sha |-> <<1, 2, 3, 4, 5, 6, 7, 8, 9, 0>>, nilCommit |-> FALSE, message |-> "m1",
     author |-> Identity(EmailAPadded, "alice"),
     committer |-> Identity(LitePRCommitter.email, "merge-bot")]

\* author and committer two different people
CommitByBob ==
    [sha |-> <<2, 2, 2>>, nilCommit |-> FALSE, message |-> "m2",
     author |-> Identity(EmailA, "alice"),
     committer |-> Identity(EmailB, "bob")]

\* author with an invalid email, committer with the lite-PR name
CommitBadEmail ==
    [sha |-> <<3, 3, 3, 3, 3, 3, 3, 3, 3>>, nilCommit |-> FALSE, message |-> "m3",
     author |-> Identity(EmailBad, "carol"),
     committer |-> Identity(EmailA, "web-flow")]

\* no commit data at all
CommitNoData ==
    [sha |-> <<4, 4, 4, 4, 4, 4, 4, 4>>, nilCommit |-> TRUE, message |-> "",
     author |-> NoIdentity, committer |-> NoIdentity]

CommitUniverse == {CommitPadded, CommitByBob, CommitBadEmail, CommitNoData}

RECURSIVE DistinctSeqs(_, _)
\* the sequences of at most n elements of S, no element twice
DistinctSeqs(S, n) ==
    IF n = 0 THEN {<<>>}
    ELSE LET shorter == DistinctSeqs(S, n - 1)
         IN shorter \cup
            { Append(p[1], p[2]) :
                p \in { q \in shorter \X S :
                          /\ Len(q[1]) = n - 1
                          /\ \A i \in 1..Len(q[1]) : q[1][i] # q[2] } }

CommitLists == DistinctSeqs({CommitByBob, CommitBadEmail}, MaxCommits)
LongCommitLists == DistinctSeqs(CommitUniverse, MaxListed)

\* the emails the signing service can be asked about
QueryEmails == {EmailA, EmailB}

\* isLitePR that needs the email and the name to match
isLitePR_BothFields(email, name) ==
    email = LitePRCommitter.email /\ name = LitePRCommitter.name

\* litePRCommiter.isLitePR
isLitePR(email, name) ==
    email = LitePRCommitter.email \/ name = LitePRCommitter.name

\* getAuthorOfCommit(c, byCommitter, isLitePR)
getAuthorOfCommit(c, checkByCommitter) ==
    IF c.nilCommit THEN <<>>
    ELSE IF /\ checkByCommitter
            /\ ~c.committer.nil
            /\ ~isLitePR(c.committer.email, c.committer.name)
         THEN c.committer.email
         ELSE IF c.author.nil THEN <<>> ELSE c.author.email

(***************************** faults **************************************)
\* The calls that fail in one pass: platform calls by name, DeletePRComment
\* by comment id, the signing-status query by email.
ApiOps == {"GetPRCommits", "ListPRComments", "RemovePRLabel", "AddPRLabel",
           "CreatePRComment"}

NoFaults == [api |-> {}, del |-> {}, svc |-> {}]

AllFaultSets ==
    [api : SUBSET ApiOps, del : SUBSET (1..MaxComments), svc : SUBSET QueryEmails]

FaultSets ==
    { f \in AllFaultSets :
        Cardinality(f.api) + Cardinality(f.del) + Cardinality(f.svc) <= MaxFaults }

\* the failures of the commit listing and of the signing service alone
FatalFaultSets ==
    { f \in AllFaultSets : f.api \subseteq {"GetPRCommits"} /\ f.del = {} }

(************************* signing service *********************************)
\* isSigned(email, cfg.CheckURL): the service's answer, or an error
isSigned(email, db, faults) ==
    IF email \in faults.svc
    THEN [err |-> TRUE, signed |-> FALSE]
    ELSE [err |-> FALSE, signed |-> email \in db]

(************************** classification *********************************)
\* a cache that still holds an answer of an earlier pass
EmptyMap_Leftover == [e \in {EmailA} |-> FALSE]

EmptyMap == [e \in {} |-> FALSE]

\* result[email] = b
MapPut(m, email, b) == [e \in DOMAIN m \cup {email} |-> IF e = email THEN b ELSE m[e]]

\* ClassifyStep with the validity check left out: an invalid email is put to
\* the signing service like any other
ClassifyStep_QueriesInvalid(acc, c, checkByCommitter, db, faults) ==
    LET email == Trim(getAuthorOfCommit(c, checkByCommitter))
    IN IF email \in DOMAIN acc.result
       THEN IF ~acc.result[email]
            THEN [acc EXCEPT !.unsigned = Append(@, c)]
            ELSE acc
       ELSE LET r == isSigned(email, db, faults)
            IN IF r.err
               THEN [acc EXCEPT !.err = "SignatureQuery",
                                !.queries = Append(@, email)]
               ELSE [acc EXCEPT !.result = MapPut(@, email, r.signed),
                                !.queries = Append(@, email),
                                !.unsigned = IF r.signed THEN @ ELSE Append(@, c)]

\* ClassifyStep that skips a commit with an invalid email instead of
\* putting it in the unsigned set
ClassifyStep_SkipsInvalid(acc, c, checkByCommitter, db, faults) ==
    LET email == Trim(getAuthorOfCommit(c, checkByCommitter))
    IN IF ~IsValidEmail(email)
       THEN acc
       ELSE IF email \in DOMAIN acc.result
            THEN IF ~acc.result[email]
                 THEN [acc EXCEPT !.unsigned = Append(@, c)]
                 ELSE acc
            ELSE LET r == isSigned(email, db, faults)
                 IN IF r.err
                    THEN [acc EXCEPT !.err = "SignatureQuery",
                                     !.queries = Append(@, email)]
                    ELSE [acc EXCEPT !.result = MapPut(@, email, r.signed),
                                     !.queries = Append(@, email),
                                     !.unsigned = IF r.signed THEN @ ELSE Append(@, c)]

\* ClassifyStep that stores an answer in the cache only when it is true
ClassifyStep_CachesSignedOnly(acc, c, checkByCommitter, db, faults) ==
    LET email == Trim(getAuthorOfCommit(c, checkByCommitter))
    IN IF ~IsValidEmail(email)
       THEN [acc EXCEPT !.unsigned = Append(@, c)]
       ELSE IF email \in DOMAIN acc.result
            THEN IF ~acc.result[email]
                 THEN [acc EXCEPT !.unsigned = Append(@, c)]
                 ELSE acc
            ELSE LET r == isSigned(email, db, faults)
                 IN IF r.err
                    THEN [acc EXCEPT !.err = "SignatureQuery",
                                     !.queries = Append(@, email)]
                    ELSE [acc EXCEPT !.result = IF r.signed THEN MapPut(@, email, TRUE) ELSE @,
                                     !.queries = Append(@, email),
                                     !.unsigned = IF r.signed THEN @ ELSE Append(@, c)]

\* one iteration of the loop over commits[i]
ClassifyStep(acc, c, checkByCommitter, db, faults) ==
    LET email == Trim(getAuthorOfCommit(c, checkByCommitter))
    IN IF ~IsValidEmail(email)
       THEN [acc EXCEPT !.unsigned = Append(@, c)]
       ELSE IF email \in DOMAIN acc.result
            THEN IF ~acc.result[email]
                 THEN [acc EXCEPT !.unsigned = Append(@, c)]
                 ELSE acc
            ELSE LET r == isSigned(email, db, faults)
                 IN IF r.err
                    THEN [acc EXCEPT !.err = "SignatureQuery",
                                     !.queries = Append(@, email)]
                    ELSE [acc EXCEPT !.result = MapPut(@, email, r.signed),
                                     !.queries = Append(@, email),
                                     !.unsigned = IF r.signed THEN @ ELSE Append(@, c)]

RECURSIVE ClassifyLoop(_, _, _, _, _, _)
ClassifyLoop(acc, cs, i, checkByCommitter, db, faults) ==
    IF i > Len(cs) \/ acc.err # "nil" THEN acc
    ELSE ClassifyLoop(ClassifyStep(acc, cs[i], checkByCommitter, db, faults),
                      cs, i + 1, checkByCommitter, db, faults)

\* robot.getPRCommitsAbout: err is "nil" or the error returned; unsigned is
\* the slice returned (nil on error); result and queries are the cache and
\* the queries issued, in order.
getPRCommitsAbout(cs, checkByCommitter, db, faults) ==
    LET start == [err |-> "nil", unsigned |-> <<>>, result |-> EmptyMap, queries |-> <<>>]
    IN IF "GetPRCommits" \in faults.api
       THEN [start EXCEPT !.err = "GetPRCommits"]
       ELSE IF Len(cs) = 0
            THEN [start EXCEPT !.err = "NoCommits"]
            ELSE LET r == ClassifyLoop(start, cs, 1, checkByCommitter, db, faults)
                 IN IF r.err # "nil" THEN [r EXCEPT !.unsigned = <<>>] ELSE r

(**************************** comments ***********************************)
\* A comment body is a sequence of tokens; a token is a fixed piece of text
\* (k names it) or one "**<sha>** | <msg>" line.
Text(k) == [k |-> k, sha |-> <<>>, msg |-> ""]
Line(sha, msg) == [k |-> "line", sha |-> sha, msg |-> msg]

\* signGuideTitle()
signGuideTitle == <<Text("Thanks for your pull request. The authors of the following commits")>>

\* prefixOld of deleteSignGuide
prefixOld == <<Text("Thanks for your pull request. Before we can look at")>>

\* generateUnSignComment that writes the whole SHA
generateUnSignComment_WholeSHA(cs) ==
    [i \in 1..Len(cs) |->
        Line(cs[i].sha, IF cs[i].nilCommit THEN "" ELSE cs[i].message)]

\* generateUnSignComment
generateUnSignComment(cs) ==
    [i \in 1..Len(cs) |->
        LET msg == IF cs[i].nilCommit THEN "" ELSE cs[i].message
            sha == IF Len(cs[i].sha) > maxLengthOfSHA
                   THEN SubSeq(cs[i].sha, 1, maxLengthOfSHA)
                   ELSE cs[i].sha
        IN Line(sha, msg)]

\* signGuide(signURL, cInfo, faq)
signGuide(cInfo) ==
    signGuideTitle \o cInfo \o <<Text("Please check the FAQs first. You can click here to sign")>>

\* alreadySigned(user)
alreadySigned(user) ==
    <<[k |-> "already signed", sha |-> <<>>, msg |-> user]>>

\* a guidance comment as an earlier version of the robot wrote it
LegacyGuideBody == prefixOld \o <<Text("sign the CLA")>>

\* f of deleteSignGuide that looks for a title anywhere in the body
IsGuideBody_AnyMention(body) ==
    \E i \in 1..Len(body) : <<body[i]>> = signGuideTitle \/ <<body[i]>> = prefixOld

\* f of deleteSignGuide without the legacy title
IsGuideBody_CurrentTitleOnly(body) == HasPrefix(body, signGuideTitle)

\* f of deleteSignGuide
IsGuideBody(body) == HasPrefix(body, signGuideTitle) \/ HasPrefix(body, prefixOld)

\* a guidance comment: a body that starts with the current or the legacy title
IsGuidance(body) ==
    \/ body # <<>> /\ <<body[1]>> = signGuideTitle
    \/ body # <<>> /\ <<body[1]>> = prefixOld

\* the number of guidance comments among cmts
GuideCount(cmts) == Cardinality({ i \in 1..Len(cmts) : IsGuidance(cmts[i].body) })

PRUser == "contributor"

(**************************** platform *************************************)
\* The platform as one pass sees and changes it: the labels and comments of
\* the pull request, the calls made so far, and whether a comment was to be
\* created beyond MaxComments.
Call(op, label, id, body, ok) ==
    [op |-> op, label |-> label, id |-> id, body |-> body, ok |-> ok]

Logged(w, c) == [w EXCEPT !.calls = Append(@, c)]

\* iClient.AddPRLabel
AddPRLabel(w, label, faults) ==
    LET ok == "AddPRLabel" \notin faults.api
    IN Logged([w EXCEPT !.labels = IF ok THEN @ \cup {label} ELSE @],
              Call("AddPRLabel", label, 0, <<>>, ok))

\* iClient.RemovePRLabel
RemovePRLabel(w, label, faults) ==
    LET ok == "RemovePRLabel" \notin faults.api
    IN Logged([w EXCEPT !.labels = IF ok THEN @ \ {label} ELSE @],
              Call("RemovePRLabel", label, 0, <<>>, ok))

UsedIds(cmts) == { cmts[i].id : i \in 1..Len(cmts) }

FreshId(cmts) == CHOOSE n \in 1..MaxComments :
                    /\ n \notin UsedIds(cmts)
                    /\ \A m \in 1..(n - 1) : m \in UsedIds(cmts)

\* cmts with comment c added, the sequence kept ordered by id
InsertComment(cmts, c) ==
    LET before == SelectSeq(cmts, LAMBDA x : x.id < c.id)
        after == SelectSeq(cmts, LAMBDA x : x.id > c.id)
    IN before \o <<c>> \o after

\* iClient.CreatePRComment
CreatePRComment(w, body, faults) ==
    LET ok == "CreatePRComment" \notin faults.api
    IN IF ~ok THEN Logged(w, Call("CreatePRComment", "", 0, body, FALSE))
       ELSE IF Len(w.comments) >= MaxComments
            THEN [Logged(w, Call("CreatePRComment", "", 0, body, TRUE)) EXCEPT !.full = TRUE]
            ELSE LET id == FreshId(w.comments)
                 IN Logged([w EXCEPT !.comments = InsertComment(@, [id |-> id, body |-> body])],
                           Call("CreatePRComment", "", id, body, TRUE))

\* iClient.DeletePRComment
DeletePRComment(w, id, faults) ==
    LET ok == id \notin faults.del
    IN Logged([w EXCEPT !.comments = IF ok THEN SelectSeq(@, LAMBDA x : x.id # id) ELSE @],
              Call("DeletePRComment", "", id, <<>>, ok))

RECURSIVE DeleteLoop(_, _, _, _)
\* the loop of deleteSignGuide over the listing v
DeleteLoop(w, v, i, faults) ==
    IF i > Len(v) THEN w
    ELSE DeleteLoop(IF IsGuideBody(v[i].body) THEN DeletePRComment(w, v[i].id, faults) ELSE w,
                    v, i + 1, faults)

\* deleteSignGuide that looks at the first comment of the listing only
deleteSignGuide_FirstComment(w, faults) ==
    IF "ListPRComments" \in faults.api
    THEN Logged(w, Call("ListPRComments", "", 0, <<>>, FALSE))
    ELSE DeleteLoop(Logged(w, Call("ListPRComments", "", 0, <<>>, TRUE)),
                    IF w.comments = <<>> THEN <<>> ELSE <<Head(w.comments)>>, 1, faults)

\* deleteSignGuide
deleteSignGuide(w, faults) ==
    IF "ListPRComments" \in faults.api
    THEN Logged(w, Call("ListPRComments", "", 0, <<>>, FALSE))
    ELSE DeleteLoop(Logged(w, Call("ListPRComments", "", 0, <<>>, TRUE)),
                    w.comments, 1, faults)

(****************************** handle *************************************)
CLALabels == {CLALabelYes, CLALabelNo}

World(ls, cmts) == [labels |-> ls, comments |-> cmts, calls |-> <<>>, full |-> FALSE]

\* the Signed branch that posts the 'already signed' comment whether or not
\* cla_label_yes was in the label set
SignedBranch_NotifiesWhenLabelled(w, hasCLAYes, hasCLANo, notifyAuthorIfSigned, faults) ==
    LET w1 == IF hasCLANo THEN RemovePRLabel(w, CLALabelNo, faults) ELSE w
        w2 == IF ~hasCLAYes THEN AddPRLabel(w1, CLALabelYes, faults) ELSE w1
    IN IF notifyAuthorIfSigned
       THEN CreatePRComment(w2, alreadySigned(PRUser), faults)
       ELSE w2

\* the Signed branch that posts the 'already signed' comment for a pull
\* request event as well
SignedBranch_NotifiesOnPREvent(w, hasCLAYes, hasCLANo, notifyAuthorIfSigned, faults) ==
    LET w1 == IF hasCLANo THEN RemovePRLabel(w, CLALabelNo, faults) ELSE w
        w2 == IF ~hasCLAYes THEN AddPRLabel(w1, CLALabelYes, faults) ELSE w1
    IN IF ~hasCLAYes
       THEN CreatePRComment(w2, alreadySigned(PRUser), faults)
       ELSE w2

\* the Signed branch that removes cla_label_no without looking at the labels
SignedBranch_RemovesUnseen(w, hasCLAYes, hasCLANo, notifyAuthorIfSigned, faults) ==
    LET w1 == RemovePRLabel(w, CLALabelNo, faults)
        w2 == IF ~hasCLAYes THEN AddPRLabel(w1, CLALabelYes, faults) ELSE w1
    IN IF ~hasCLAYes /\ notifyAuthorIfSigned
       THEN CreatePRComment(w2, alreadySigned(PRUser), faults)
       ELSE w2

\* the Signed branch of handle, lines 123-144
SignedBranch(w, hasCLAYes, hasCLANo, notifyAuthorIfSigned, faults) ==
    LET w1 == IF hasCLANo THEN RemovePRLabel(w, CLALabelNo, faults) ELSE w
        w2 == IF ~hasCLAYes THEN AddPRLabel(w1, CLALabelYes, faults) ELSE w1
    IN IF ~hasCLAYes /\ notifyAuthorIfSigned
       THEN CreatePRComment(w2, alreadySigned(PRUser), faults)
       ELSE w2

\* the Unsigned branch that leaves cla_label_yes on the pull request
UnsignedBranch_KeepsYes(w, unsigned, hasCLAYes, hasCLANo, faults) ==
    LET w2 == IF ~hasCLANo THEN AddPRLabel(w, CLALabelNo, faults) ELSE w
    IN CreatePRComment(w2, signGuide(generateUnSignComment(unsigned)), faults)

\* the Unsigned branch that adds cla_label_no without looking at the labels
UnsignedBranch_AlwaysAdds(w, unsigned, hasCLAYes, hasCLANo, faults) ==
    LET w1 == IF hasCLAYes THEN RemovePRLabel(w, CLALabelYes, faults) ELSE w
        w2 == AddPRLabel(w1, CLALabelNo, faults)
    IN CreatePRComment(w2, signGuide(generateUnSignComment(unsigned)), faults)

\* the Unsigned branch of handle, lines 146-161
UnsignedBranch(w, unsigned, hasCLAYes, hasCLANo, faults) ==
    LET w1 == IF hasCLAYes THEN RemovePRLabel(w, CLALabelYes, faults) ELSE w
        w2 == IF ~hasCLANo THEN AddPRLabel(w1, CLALabelNo, faults) ELSE w1
    IN CreatePRComment(w2, signGuide(generateUnSignComment(unsigned)), faults)

\* what handle returns: the error of its last CreatePRComment call, if it
\* ended with one
ReturnOf(w) ==
    IF /\ w.calls # <<>>
       /\ w.calls[Len(w.calls)].op = "CreatePRComment"
       /\ ~w.calls[Len(w.calls)].ok
    THEN "CreatePRComment"
    ELSE "nil"

\* handle that skips deleteSignGuide when the unsigned set is empty
handle_DeletesWhenUnsigned(w, cs, checkByCommitter, db, prLabels, notifyAuthorIfSigned, faults) ==
    LET cls == getPRCommitsAbout(cs, checkByCommitter, db, faults)
        hasCLAYes == CLALabelYes \in prLabels
        hasCLANo == CLALabelNo \in prLabels
        w2 == IF Len(cls.unsigned) = 0
              THEN SignedBranch(w, hasCLAYes, hasCLANo, notifyAuthorIfSigned, faults)
              ELSE UnsignedBranch(deleteSignGuide(w, faults), cls.unsigned,
                                  hasCLAYes, hasCLANo, faults)
    IN IF cls.err # "nil"
       THEN [err |-> cls.err, cls |-> cls, w |-> w]
       ELSE [err |-> ReturnOf(w2), cls |-> cls, w |-> w2]

\* handle that deletes the guidance comments before it looks at the error
\* of getPRCommitsAbout
handle_DeletesFirst(w, cs, checkByCommitter, db, prLabels, notifyAuthorIfSigned, faults) ==
    LET cls == getPRCommitsAbout(cs, checkByCommitter, db, faults)
        hasCLAYes == CLALabelYes \in prLabels
        hasCLANo == CLALabelNo \in prLabels
        w1 == deleteSignGuide(w, faults)
        w2 == IF Len(cls.unsigned) = 0
              THEN SignedBranch(w1, hasCLAYes, hasCLANo, notifyAuthorIfSigned, faults)
              ELSE UnsignedBranch(w1, cls.unsigned, hasCLAYes, hasCLANo, faults)
    IN IF cls.err # "nil"
       THEN [err |-> cls.err, cls |-> cls, w |-> w1]
       ELSE [err |-> ReturnOf(w2), cls |-> cls, w |-> w2]

\* robot.handle on the platform state w: cls is what getPRCommitsAbout
\* returned, w the platform afterwards with the calls made, err what handle
\* returns.
handle(w, cs, checkByCommitter, db, prLabels, notifyAuthorIfSigned, faults) ==
    LET cls == getPRCommitsAbout(cs, checkByCommitter, db, faults)
        hasCLAYes == CLALabelYes \in prLabels
        hasCLANo == CLALabelNo \in prLabels
        w1 == deleteSignGuide(w, faults)
        w2 == IF Len(cls.unsigned) = 0
              THEN SignedBranch(w1, hasCLAYes, hasCLANo, notifyAuthorIfSigned, faults)
              ELSE UnsignedBranch(w1, cls.unsigned, hasCLAYes, hasCLANo, faults)
    IN IF cls.err # "nil"
       THEN [err |-> cls.err, cls |-> cls, w |-> w]
       ELSE [err |-> ReturnOf(w2), cls |-> cls, w |-> w2]

(****************************** events *************************************)
\* A comment body is a sequence of pieces: the command in two spellings,
\* blank, line break, other text.
Command == {"/check-cla", "/Check-CLA"}
Whitespace == {" ", "\n"}

\* checkCLARe.MatchString: (?mi)^/check-cla\s*$
checkCLARe(body) ==
    \E i \in 1..Len(body) :
        /\ i = 1 \/ body[i - 1] = "\n"
        /\ body[i] \in Command
        /\ \E j \in i..Len(body) :
              /\ \A k \in (i + 1)..j : body[k] \in Whitespace
              /\ j = Len(body) \/ body[j + 1] = "\n"

\* sdk.PullRequestEvent, as far as handlePREvent reads it
PRStates == {"open", "closed"}
PRActions == {"opened", "source_branch_changed", "updated_label"}
PREvents == [state : PRStates, action : PRActions]

\* sdk.NoteEvent, as far as handleNoteEvent reads it, and the state of the
\* pull request it was written on
NoteBodies == {<<"/check-cla">>, <<"x">>}
NoteEvents == [creating : BOOLEAN, isPR : BOOLEAN, state : PRStates, body : NoteBodies]

\* the event a handler was given, in one shape for both handlers
NoEvent == [state |-> "", action |-> "", creating |-> FALSE, isPR |-> FALSE, body |-> <<>>]
OfPREvent(e) == [NoEvent EXCEPT !.state = e.state, !.action = e.action, !.isPR = TRUE]
OfNoteEvent(e) == [NoEvent EXCEPT !.state = e.state, !.creating = e.creating,
                                  !.isPR = e.isPR, !.body = e.body]

Idle ==
    [handler |-> "none", ev |-> NoEvent, started |-> FALSE, notify |-> FALSE,
     seen |-> {}, preLabels |-> {}, preComments |-> <<>>, err |-> "nil",
     calls |-> <<>>, unsigned |-> <<>>, result |-> EmptyMap, queries |-> <<>>,
     classified |-> FALSE]

\* a handler returned nil before calling handle
Filtered(name, ev) == [Idle EXCEPT !.handler = name, !.ev = ev]

\* a handler returned the error of bot.getConfig before calling handle
NoConfig(name, ev) == [Idle EXCEPT !.handler = name, !.ev = ev, !.err = "NoConfig"]

\* a handler called handle, which ended with outcome o
Ran(name, ev, prLabels, notify, o) ==
    [handler |-> name, ev |-> ev, started |-> TRUE, notify |-> notify,
     seen |-> prLabels, preLabels |-> labels, preComments |-> comments,
     err |-> o.err, calls |-> o.w.calls, unsigned |-> o.cls.unsigned,
     result |-> o.cls.result, queries |-> o.cls.queries,
     classified |-> o.cls.err = "nil"]

\* the call of handle by a handler with the event's pull request data
\* (its label set), under the calls that fail in this pass
RunHandle(name, ev, prLabels, notify, faults) ==
    LET o == handle(World(labels, comments), commits, byCommitter, signedDB,
                    prLabels, notify, faults)
    IN /\ ~o.w.full
       /\ labels' = o.w.labels
       /\ comments' = o.w.comments
       /\ pass' = Ran(name, ev, prLabels, notify, o)

\* The failing calls are drawn among the calls a pass can make: the
\* DeletePRComment of a comment deleteSignGuide selects, the query of an
\* email a commit resolves to.
Applicable(faults) ==
    /\ faults.del \subseteq
          { comments[i].id : i \in { j \in 1..Len(comments) : IsGuideBody(comments[j].body) } }
    /\ faults.svc \subseteq
          { Trim(getAuthorOfCommit(commits[i], byCommitter)) : i \in 1..Len(commits) }

\* robot.handlePREvent, the event's label set drawn from LabelSets and the
\* failing calls from Faults
handlePREvent(e, LabelSets, Faults) ==
    /\ pass = Idle
    /\ IF e.state # "open"
       THEN /\ pass' = Filtered("handlePREvent", OfPREvent(e))
            /\ UNCHANGED <<labels, comments>>
       ELSE IF e.action # "opened" /\ e.action # "source_branch_changed"
            THEN /\ pass' = Filtered("handlePREvent", OfPREvent(e))
                 /\ UNCHANGED <<labels, comments>>
            ELSE IF ~configured
                 THEN /\ pass' = NoConfig("handlePREvent", OfPREvent(e))
                      /\ UNCHANGED <<labels, comments>>
                 ELSE \E prLabels \in LabelSets, faults \in { f \in Faults : Applicable(f) } :
                         RunHandle("handlePREvent", OfPREvent(e), prLabels, FALSE, faults)
    /\ UNCHANGED <<commits, byCommitter, signedDB, configured>>

\* robot.handleNoteEvent
handleNoteEvent(e, LabelSets, Faults) ==
    /\ pass = Idle
    /\ IF ~e.creating \/ ~e.isPR
       THEN /\ pass' = Filtered("handleNoteEvent", OfNoteEvent(e))
            /\ UNCHANGED <<labels, comments>>
       ELSE IF ~checkCLARe(e.body)
            THEN /\ pass' = Filtered("handleNoteEvent", OfNoteEvent(e))
                 /\ UNCHANGED <<labels, comments>>
            ELSE IF ~configured
                 THEN /\ pass' = NoConfig("handleNoteEvent", OfNoteEvent(e))
                      /\ UNCHANGED <<labels, comments>>
                 ELSE \E prLabels \in LabelSets, faults \in { f \in Faults : Applicable(f) } :
                         RunHandle("handleNoteEvent", OfNoteEvent(e), prLabels, TRUE, faults)
    /\ UNCHANGED <<commits, byCommitter, signedDB, configured>>

\* the handler has returned to the dispatcher; the next event can be handled
Returned ==
    /\ pass # Idle
    /\ pass' = Idle
    /\ UNCHANGED <<commits, byCommitter, signedDB, labels, comments, configured>>

(*************************** environment ***********************************)
\* somebody signs the agreement, or the service loses a signature
SigningChanges ==
    /\ pass = Idle
    /\ \E email \in QueryEmails :
          signedDB' = IF email \in signedDB THEN signedDB \ {email} ELSE signedDB \cup {email}
    /\ UNCHANGED <<commits, byCommitter, labels, comments, configured, pass>>

\* a guidance comment of an earlier version of the robot is on the pull
\* request
LegacyComment ==
    /\ pass = Idle
    /\ Len(comments) < MaxComments
    /\ GuideCount(comments) = 0
    /\ comments' = InsertComment(comments, [id |-> FreshId(comments), body |-> LegacyGuideBody])
    /\ UNCHANGED <<commits, byCommitter, signedDB, labels, configured, pass>>

(*************************** specification *********************************)
\* The pull request with few commits, every event, every label set an
\* event can carry and every failing call.
Init ==
    /\ commits \in CommitLists
    /\ byCommitter \in BOOLEAN
    /\ signedDB = {}
    /\ labels \in SUBSET CLALabels
    /\ comments = <<>>
    /\ configured \in BOOLEAN
    /\ pass = Idle

Next ==
    \/ \E e \in PREvents : handlePREvent(e, SUBSET CLALabels, FaultSets)
    \/ \E e \in NoteEvents : handleNoteEvent(e, SUBSET CLALabels, FaultSets)
    \/ Returned
    \/ SigningChanges
    \/ LegacyComment

Spec == Init /\ [][Next]_vars

\* The pull request with longer commit listings, every event carrying the
\* labels the pull request has, and the failures that end a pass: of the
\* commit listing and of the signing service.
InitClassify ==
    /\ commits \in LongCommitLists
    /\ byCommitter \in BOOLEAN
    /\ signedDB = {}
    /\ labels = {}
    /\ comments = <<>>
    /\ configured \in BOOLEAN
    /\ pass = Idle

NextClassify ==
    \/ \E e \in PREvents : handlePREvent(e, {labels}, FatalFaultSets)
    \/ \E e \in NoteEvents : handleNoteEvent(e, {labels}, FatalFaultSets)
    \/ Returned
    \/ SigningChanges

SpecClassify == InitClassify /\ [][NextClassify]_vars

(************************** trigger bodies *********************************)
\* The comment bodies of at most MaxBody pieces: the command in either
\* spelling, blanks, line breaks and other text in any arrangement.
MaxBody == 3

Pieces == Command \cup Whitespace \cup {"x"}

RECURSIVE BodiesUpTo(_)
BodiesUpTo(n) ==
    IF n = 0 THEN {<<>>}
    ELSE LET shorter == BodiesUpTo(n - 1)
         IN shorter \cup { Append(b, p) : b \in { s \in shorter : Len(s) = n - 1 }, p \in Pieces }

TriggerBodies == BodiesUpTo(MaxBody)
TriggerEvents == [creating : BOOLEAN, isPR : BOOLEAN, state : PRStates, body : TriggerBodies]

\* One pull request with an unsigned commit, note events with every body,
\* carrying the labels the pull request has; no call fails.
InitTrigger ==
    /\ commits = <<CommitByBob>>
    /\ byCommitter = FALSE
    /\ signedDB = {}
    /\ labels = {}
    /\ comments = <<>>
    /\ configured = TRUE
    /\ pass = Idle

NextTrigger ==
    \/ \E e \in TriggerEvents : handleNoteEvent(e, {labels}, {NoFaults})
    \/ Returned

SpecTrigger == InitTrigger /\ [][NextTrigger]_vars

(************************ identity resolution ******************************)
\* The commits getAuthorOfCommit tells apart: with and without an author,
\* without a committer or with one that matches the lite-PR override on
\* nothing, on the email, on the name or on both, and without commit data.
ResolveAuthors == {NoIdentity, Identity(EmailA, "alice")}

ResolveCommitters ==
    {NoIdentity,
     Identity(EmailB, "bob"),
     Identity(LitePRCommitter.email, "bob"),
     Identity(EmailB, LitePRCommitter.name),
     Identity(LitePRCommitter.email, LitePRCommitter.name)}

ResolveCommits ==
    { [sha |-> <<5, 5>>, nilCommit |-> FALSE, message |-> "m5", author |-> a, committer |-> c] :
        a \in ResolveAuthors, c \in ResolveCommitters }
    \cup {CommitNoData}

\* One pull request with one commit of any of these shapes, under both
\* settings of check_by_committer; events carry the labels the pull request
\* has and no call fails.
InitResolve ==
    /\ commits \in { <<c>> : c \in ResolveCommits }
    /\ byCommitter \in BOOLEAN
    /\ signedDB = {}
    /\ labels = {}
    /\ comments = <<>>
    /\ configured = TRUE
    /\ pass = Idle

NextResolve ==
    \/ \E e \in PREvents : handlePREvent(e, {labels}, {NoFaults})
    \/ Returned
    \/ SigningChanges

SpecResolve == InitResolve /\ [][NextResolve]_vars

(************************* interleaved passes ******************************)
\* Two passes of handlePREvent at once, each with the locals of its own
\* call of getPRCommitsAbout (the commit listing, the loop index, result,
\* unsigned) and one step per loop iteration, so that the other pass and
\* the signing service can act in between.  heard is the set of answers
\* the signing service gave this pass, fresh whether it has not changed
\* since the pass began.
Passes == {"p", "q"}

StartAcc == [err |-> "nil", unsigned |-> <<>>, result |-> EmptyMap, queries |-> <<>>]

NotRunning ==
    [pc |-> "idle", cs |-> <<>>, i |-> 0, seen |-> {}, acc |-> StartAcc,
     heard |-> {}, fresh |-> TRUE]

\* handle from line 117 on: the labels of the event, deleteSignGuide and
\* the branch of the verdict
AfterClassification(w, unsigned, prLabels, notifyAuthorIfSigned, faults) ==
    LET hasCLAYes == CLALabelYes \in prLabels
        hasCLANo == CLALabelNo \in prLabels
        w1 == deleteSignGuide(w, faults)
    IN IF Len(unsigned) = 0
       THEN SignedBranch(w1, hasCLAYes, hasCLANo, notifyAuthorIfSigned, faults)
       ELSE UnsignedBranch(w1, unsigned, hasCLAYes, hasCLANo, faults)

\* handlePREvent for an open pull request just opened, up to the loop of
\* getPRCommitsAbout: the listing is fetched and result is made
BeginPass(p) ==
    /\ pass[p].pc \in {"idle", "done"}
    /\ Len(commits) > 0
    /\ pass' = [pass EXCEPT ![p] =
                  [pc |-> "classify", cs |-> commits, i |-> 1, seen |-> labels,
                   acc |-> StartAcc, heard |-> {}, fresh |-> TRUE]]
    /\ UNCHANGED <<commits, byCommitter, signedDB, labels, comments, configured>>

\* one iteration of the loop of getPRCommitsAbout in pass p
ClassifyNext(p) ==
    /\ pass[p].pc = "classify"
    /\ pass[p].i <= Len(pass[p].cs)
    /\ LET r == pass[p]
           acc == ClassifyStep(r.acc, r.cs[r.i], byCommitter, signedDB, NoFaults)
           asked == Len(acc.queries) > Len(r.acc.queries)
           email == acc.queries[Len(acc.queries)]
       IN pass' = [pass EXCEPT ![p] =
                     [r EXCEPT !.acc = acc, !.i = r.i + 1,
                               !.heard = IF asked THEN @ \cup {<<email, email \in signedDB>>}
                                         ELSE @]]
    /\ UNCHANGED <<commits, byCommitter, signedDB, labels, comments, configured>>

\* the rest of handle in pass p, once the loop has ended
FinishPass(p) ==
    /\ pass[p].pc = "classify"
    /\ pass[p].i > Len(pass[p].cs)
    /\ LET w == AfterClassification(World(labels, comments), pass[p].acc.unsigned,
                                    pass[p].seen, FALSE, NoFaults)
       IN /\ ~w.full
          /\ labels' = w.labels
          /\ comments' = w.comments
    /\ pass' = [pass EXCEPT ![p].pc = "done"]
    /\ UNCHANGED <<commits, byCommitter, signedDB, configured>>

\* somebody signs the agreement, or the service loses a signature, at any
\* moment of a pass
SigningChangesMeanwhile ==
    /\ \E email \in QueryEmails :
          signedDB' = IF email \in signedDB THEN signedDB \ {email} ELSE signedDB \cup {email}
    /\ pass' = [p \in Passes |->
                  IF pass[p].pc = "idle" THEN pass[p] ELSE [pass[p] EXCEPT !.fresh = FALSE]]
    /\ UNCHANGED <<commits, byCommitter, labels, comments, configured>>

InitInterleaved ==
    /\ commits \in DistinctSeqs({CommitPadded, CommitByBob}, MaxListed) \ {<<>>}
    /\ byCommitter \in BOOLEAN
    /\ signedDB = {}
    /\ labels = {}
    /\ comments = <<>>
    /\ configured = TRUE
    /\ pass = [p \in Passes |-> NotRunning]

NextInterleaved ==
    \/ \E p \in Passes : BeginPass(p)
    \/ \E p \in Passes : ClassifyNext(p)
    \/ \E p \in Passes : FinishPass(p)
    \/ SigningChangesMeanwhile

SpecInterleaved == InitInterleaved /\ [][NextInterleaved]_vars

(*************************** other comments ********************************)
\* Comments people write on the pull request: one that quotes the guidance
\* comment after some text of its own, and one with nothing of it.
UserBodies == { <<Text("As the robot said: ")>> \o signGuideTitle, <<Text("lgtm")>> }

UserComment ==
    /\ pass = Idle
    /\ Len(comments) < MaxComments
    /\ \E body \in UserBodies :
          comments' = InsertComment(comments, [id |-> FreshId(comments), body |-> body])
    /\ UNCHANGED <<commits, byCommitter, signedDB, labels, configured, pass>>

\* the passes in which ListPRComments fails or no call does
ListingFaultSets == { f \in FaultSets : f.api \subseteq {"ListPRComments"} /\ f.del = {} /\ f.svc = {} }

\* One pull request with one commit and comments of every kind on it: of
\* people, guidance comments old and new, 'already signed' comments; events
\* carry the labels the pull request has.
InitComments ==
    /\ commits = <<CommitByBob>>
    /\ byCommitter = FALSE
    /\ signedDB = {}
    /\ labels = {}
    /\ comments = <<>>
    /\ configured = TRUE
    /\ pass = Idle

NextComments ==
    \/ \E e \in PREvents : handlePREvent(e, {labels}, ListingFaultSets)
    \/ \E e \in NoteEvents : handleNoteEvent(e, {labels}, ListingFaultSets)
    \/ Returned
    \/ SigningChanges
    \/ LegacyComment
    \/ UserComment

SpecComments == InitComments /\ [][NextComments]_vars

(***************************************************************************)
(* Properties.  pass is the record of the handler invocation that has just *)
(* ended (Idle between invocations), so a state predicate over pass and    *)
(* the platform variables speaks of the state right after that pass.       *)
(***************************************************************************)
CallsOf(op) == { i \in 1..Len(pass.calls) : pass.calls[i].op = op }
FailedCalls(op) == { i \in CallsOf(op) : ~pass.calls[i].ok }
LabelCalls == CallsOf("AddPRLabel") \cup CallsOf("RemovePRLabel")
NoLabelCallFailed == FailedCalls("AddPRLabel") \cup FailedCalls("RemovePRLabel") = {}
NoDeletionFailed == FailedCalls("ListPRComments") \cup FailedCalls("DeletePRComment") = {}
Range(s) == { s[i] : i \in 1..Len(s) }

\* the email the pass resolved for commit c, trimmed
ResolvedEmail(c) == Trim(getAuthorOfCommit(c, byCommitter))

\* the verdict's label: cla_label_yes for an empty unsigned set
VerdictLabel == IF pass.unsigned = <<>> THEN CLALabelYes ELSE CLALabelNo

C3_VerdictCorrect ==
    (pass.started /\ pass.classified) =>
        /\ \A i \in 1..Len(commits) :
              (commits[i] \in Range(pass.unsigned))
                  <=> (\/ ~IsValidEmail(ResolvedEmail(commits[i]))
                       \/ ResolvedEmail(commits[i]) \notin signedDB)
        /\ (\E i \in CallsOf("AddPRLabel") : pass.calls[i].label = CLALabelYes)
              => \A j \in 1..Len(commits) :
                    /\ IsValidEmail(ResolvedEmail(commits[j]))
                    /\ ResolvedEmail(commits[j]) \in signedDB
                    /\ pass.result[ResolvedEmail(commits[j])] = TRUE

\* a pass over three commits: one signed, one with an invalid email, one
\* unsigned, so the unsigned set holds the last two
C3_Witness ==
    /\ pass.started /\ pass.classified
    /\ Len(commits) = 3 /\ Len(pass.unsigned) = 2
    /\ \E i \in 1..3 : /\ IsValidEmail(ResolvedEmail(commits[i]))
                       /\ ResolvedEmail(commits[i]) \in signedDB
    /\ \E i \in 1..3 : ~IsValidEmail(ResolvedEmail(commits[i]))
    /\ \E i \in 1..3 : /\ IsValidEmail(ResolvedEmail(commits[i]))
                       /\ ResolvedEmail(commits[i]) \notin signedDB

\* C4: if the commit listing fails, the listing is empty or a signing-status
\* query fails (at any commit position), handle returns that error and has
\* made no AddPRLabel, RemovePRLabel, DeletePRComment or CreatePRComment
\* call (nor any other call on the pull request): labels and comments are
\* as before.
C4_FatalLeavesUntouched ==
    pass.started =>
        /\ Len(commits) = 0 => pass.err \in {"GetPRCommits", "NoCommits"}
        /\ (\E i \in 1..Len(pass.queries) : pass.queries[i] \notin DOMAIN pass.result)
              => pass.err = "SignatureQuery"
        /\ pass.err \in {"GetPRCommits", "NoCommits", "SignatureQuery"}
              => /\ pass.calls = <<>>
                 /\ pass.unsigned = <<>>
                 /\ labels = pass.preLabels
                 /\ comments = pass.preComments

\* a pass whose second signing-status query failed after the first commit
\* was classified unsigned, on a pull request with a label and a comment
C4_Witness ==
    /\ pass.started /\ pass.err = "SignatureQuery"
    /\ Len(pass.queries) = 2
    /\ DOMAIN pass.result = {pass.queries[1]}
    /\ pass.result[pass.queries[1]] = FALSE
    /\ pass.calls = <<>>
    /\ labels # {} /\ comments # <<>>

\* the calls of the pass by name and label, in order
Steps(calls) == [i \in 1..Len(calls) |-> <<calls[i].op, calls[i].label>>]

\* the calls the same pass makes when no call fails
FaultFreeCalls ==
    handle(World(pass.preLabels, pass.preComments), commits, byCommitter, signedDB,
           pass.seen, pass.notify, NoFaults).w.calls

\* the comments among cmts that deleteSignGuide is to delete
GuideIds(cmts) == { cmts[i].id : i \in { j \in 1..Len(cmts) : IsGuidance(cmts[j].body) } }
DeletedIds == { pass.calls[i].id : i \in CallsOf("DeletePRComment") }

\* C5 as stated: a failing AddPRLabel, RemovePRLabel, DeletePRComment or
\* CreatePRComment call never makes the pass fail: a pass that got past
\* classification returns nil, and after a failed call it still makes
\* every later call.
C5_AsStated ==
    (pass.started /\ pass.classified) =>
        /\ pass.err = "nil"
        /\ FailedCalls("ListPRComments") = {} => Steps(pass.calls) = Steps(FaultFreeCalls)

\* C6: within one pass no email is put to the signing service twice, and
\* a pass that completes classification has queried exactly the distinct
\* valid emails of the commits.
C6_OneQueryPerEmail ==
    pass.started =>
        /\ \A i, j \in 1..Len(pass.queries) : i # j => pass.queries[i] # pass.queries[j]
        /\ pass.classified =>
              Range(pass.queries) =
                  { ResolvedEmail(commits[i]) :
                      i \in { j \in 1..Len(commits) : IsValidEmail(ResolvedEmail(commits[j])) } }

\* a pass over commits of which two share an unsigned email: one query, both
\* commits unsigned
C6_Witness ==
    /\ pass.started /\ pass.classified
    /\ \E i, j \in 1..Len(commits) :
          /\ i < j
          /\ commits[i].author.email # commits[j].author.email
          /\ ResolvedEmail(commits[i]) = ResolvedEmail(commits[j])
          /\ IsValidEmail(ResolvedEmail(commits[i]))
          /\ {commits[i], commits[j]} \subseteq Range(pass.unsigned)
    /\ Len(pass.queries) = 1

\* C7: a commit whose resolved, trimmed email is empty or invalid is in the
\* unsigned set; no query is issued for such an email and the cache holds
\* nothing for it.
C7_InvalidNeedsNoQuery ==
    pass.started =>
        /\ \A q \in Range(pass.queries) : IsValidEmail(q)
        /\ \A e \in DOMAIN pass.result : IsValidEmail(e)
        /\ pass.classified =>
              \A i \in 1..Len(commits) :
                  ~IsValidEmail(ResolvedEmail(commits[i])) => commits[i] \in Range(pass.unsigned)

\* a pass over a commit with an invalid email and a commit without one: both
\* unsigned, no query
C7_Witness ==
    /\ pass.started /\ pass.classified
    /\ Len(commits) = 2 /\ pass.unsigned = commits
    /\ \E i \in 1..2 : ResolvedEmail(commits[i]) = <<>>
    /\ \E i \in 1..2 : ResolvedEmail(commits[i]) = EmailBad
    /\ pass.queries = <<>> /\ pass.result = EmptyMap

\* C8 as stated: a pass with a non-empty unsigned set that sees the labels
\* already right (cla_label_no, no cla_label_yes) makes no label call, calls
\* DeletePRComment for every guidance comment there is and CreatePRComment
\* once, with a guidance comment.
C8_AsStated ==
    (pass.started /\ pass.classified /\ pass.unsigned # <<>> /\ pass.seen = {CLALabelNo}) =>
        /\ LabelCalls = {}
        /\ DeletedIds = GuideIds(pass.preComments)
        /\ Cardinality(CallsOf("CreatePRComment")) = 1
        /\ \A i \in CallsOf("CreatePRComment") : HasPrefix(pass.calls[i].body, signGuideTitle)

\* C8 amended: such a pass makes no label call and exactly one
\* CreatePRComment call, with a guidance comment; it calls DeletePRComment
\* for every guidance comment there is when ListPRComments succeeds, and
\* for none when it fails.
C8_IdempotentUnsigned ==
    (pass.started /\ pass.classified /\ pass.unsigned # <<>> /\ pass.seen = {CLALabelNo}) =>
        /\ LabelCalls = {}
        /\ DeletedIds = IF FailedCalls("ListPRComments") = {}
                        THEN GuideIds(pass.preComments) ELSE {}
        /\ Cardinality(CallsOf("CreatePRComment")) = 1
        /\ \A i \in CallsOf("CreatePRComment") : HasPrefix(pass.calls[i].body, signGuideTitle)

\* the second of two such passes: it finds the guidance comment of the
\* first, deletes it and writes a new one, and touches no label
C8_Witness ==
    /\ pass.started /\ pass.classified /\ pass.unsigned # <<>>
    /\ pass.seen = {CLALabelNo} /\ pass.preLabels = {CLALabelNo}
    /\ Len(pass.preComments) = 1
    /\ HasPrefix(pass.preComments[1].body, signGuideTitle)
    /\ Steps(pass.calls) = << <<"ListPRComments", "">>, <<"DeletePRComment", "">>,
                              <<"CreatePRComment", "">> >>
    /\ \A i \in 1..3 : pass.calls[i].ok
    /\ labels = {CLALabelNo} /\ GuideCount(comments) = 1

\* the position of commit c in the listing
IndexIn(c) == CHOOSE i \in 1..Len(commits) : commits[i] = c

\* the first n characters of s, all of s when it is shorter
Prefix(s, n) == [i \in 1..(IF Len(s) < n THEN Len(s) ELSE n) |-> s[i]]

\* C9: the unsigned set is a subsequence of the commit listing, and the
\* guidance comment lists exactly the unsigned commits in that order, one
\* line each: the first 8 characters of the SHA and the commit message.
C9_OrderAndCompleteness ==
    (pass.started /\ pass.classified) =>
        /\ \A i \in 1..Len(pass.unsigned) : pass.unsigned[i] \in Range(commits)
        /\ \A i, j \in 1..Len(pass.unsigned) :
              i < j => IndexIn(pass.unsigned[i]) < IndexIn(pass.unsigned[j])
        /\ pass.unsigned # <<>> =>
              /\ Cardinality(CallsOf("CreatePRComment")) = 1
              /\ \A k \in CallsOf("CreatePRComment") :
                    LET body == pass.calls[k].body
                    IN /\ Len(body) = Len(pass.unsigned) + 2
                       /\ <<body[1]>> = signGuideTitle
                       /\ body[Len(body)].k # "line"
                       /\ \A i \in 1..Len(pass.unsigned) :
                             /\ body[i + 1].k = "line"
                             /\ body[i + 1].sha = Prefix(pass.unsigned[i].sha, 8)
                             /\ body[i + 1].msg = IF pass.unsigned[i].nilCommit THEN ""
                                                  ELSE pass.unsigned[i].message

\* a pass over three commits, the first (with a SHA of ten characters) and
\* the third unsigned, the second signed
C9_Witness ==
    /\ pass.started /\ pass.classified
    /\ Len(commits) = 3
    /\ pass.unsigned = <<commits[1], commits[3]>>
    /\ Len(commits[1].sha) > 8
    /\ \E k \in CallsOf("CreatePRComment") :
          /\ pass.calls[k].ok
          /\ Len(pass.calls[k].body[2].sha) = 8

\* the events the claim lets start a pass
Qualifies(name, ev) ==
    \/ /\ name = "handlePREvent"
       /\ ev.state = "open"
       /\ ev.action \in {"opened", "source_branch_changed"}
    \/ /\ name = "handleNoteEvent"
       /\ ev.creating /\ ev.isPR
       /\ ev.state = "open"
       /\ checkCLARe(ev.body)

\* C10 as stated: handle is called only for a pull request event of an open
\* pull request with action opened or source-branch-changed, or for a
\* newly created comment on an open pull request whose body matches the
\* trigger; any other event returns nil with no call.
C10_AsStated ==
    pass.handler # "none" =>
        /\ pass.started => Qualifies(pass.handler, pass.ev)
        /\ ~Qualifies(pass.handler, pass.ev) =>
              /\ pass.err = "nil" /\ pass.calls = <<>> /\ pass.queries = <<>>


\* a line of body, from position a to position b
IsLine(body, a, b) ==
    /\ a = 1 \/ body[a - 1] = "\n"
    /\ b = Len(body) \/ body[b + 1] = "\n"
    /\ \A k \in a..b : body[k] # "\n"

\* some line of body is the command once the blanks on both of its sides
\* are removed
TrimmedLineIsCommand(body) ==
    \E a \in 1..Len(body) : \E b \in a..Len(body) :
        /\ IsLine(body, a, b)
        /\ \E i \in a..b :
              /\ body[i] \in Command
              /\ \A k \in (a..b) \ {i} : body[k] = " "

\* C11 as stated: a newly created comment on a pull request starts a pass
\* exactly if one of the lines of its body, with the whitespace on both
\* sides removed, is /check-cla in any case; a line with blanks before the
\* command triggers too.
C11_AsStated ==
    (pass.handler = "handleNoteEvent" /\ pass.ev.creating /\ pass.ev.isPR /\ configured)
        => (pass.started <=> TrimmedLineIsCommand(pass.ev.body))


\* no call of the pass failed
AllCallsSucceeded == \A i \in 1..Len(pass.calls) : pass.calls[i].ok

\* C12 as stated: whatever label set the event carried (it may be older
\* than the labels of the pull request), a pass without a failed call on a
\* pull request that had at most one of the two labels and at most one
\* guidance comment ends with exactly the label of its verdict and at most
\* one guidance comment.
C12_AsStated ==
    (/\ pass.started /\ pass.err = "nil" /\ AllCallsSucceeded
     /\ Cardinality(pass.preLabels \cap CLALabels) <= 1
     /\ GuideCount(pass.preComments) <= 1)
        => /\ labels \cap CLALabels = {VerdictLabel}
           /\ GuideCount(comments) <= 1


\* the CreatePRComment calls of the pass with the 'already signed' comment
CongratsCalls ==
    { i \in CallsOf("CreatePRComment") : pass.calls[i].body = alreadySigned(PRUser) }

\* C13 as stated: the 'already signed' comment is posted exactly if the
\* unsigned set is empty, the pass was triggered by a /check-cla comment and
\* cla_label_yes was newly added by this pass: absent from the pull request
\* before the pass and added during it.
C13_AsStated ==
    (pass.started /\ pass.classified) =>
        (CongratsCalls # {} <=>
            /\ pass.unsigned = <<>>
            /\ pass.handler = "handleNoteEvent"
            /\ CLALabelYes \notin pass.preLabels
            /\ CLALabelYes \in labels
            /\ \E i \in CallsOf("AddPRLabel") :
                  pass.calls[i].ok /\ pass.calls[i].label = CLALabelYes)

\* C13 amended: the 'already signed' comment is posted exactly if the
\* unsigned set is empty, the pass was triggered by a /check-cla comment and
\* cla_label_yes is absent from the label set the event carried; it is then
\* the last call of the pass, made once, right after the AddPRLabel call
\* for cla_label_yes, whether or not that call succeeded.  A pass triggered
\* by a pull request event never posts it.
C13_Congratulation ==
    (pass.started /\ pass.classified) =>
        /\ CongratsCalls # {} <=>
              /\ pass.unsigned = <<>>
              /\ pass.handler = "handleNoteEvent"
              /\ CLALabelYes \notin pass.seen
        /\ Cardinality(CongratsCalls) <= 1
        /\ \A i \in CongratsCalls :
              /\ i = Len(pass.calls) /\ i > 1
              /\ pass.calls[i - 1].op = "AddPRLabel"
              /\ pass.calls[i - 1].label = CLALabelYes
        /\ pass.handler = "handlePREvent" => CongratsCalls = {}

\* a /check-cla pass that saw the true labels {cla_label_no}, found every
\* commit signed, swapped the labels and posted the comment
C13_Witness ==
    /\ pass.started /\ pass.classified /\ pass.handler = "handleNoteEvent"
    /\ pass.unsigned = <<>> /\ AllCallsSucceeded
    /\ pass.seen = {CLALabelNo} /\ pass.preLabels = {CLALabelNo}
    /\ Steps(pass.calls) = << <<"ListPRComments", "">>, <<"RemovePRLabel", CLALabelNo>>,
                              <<"AddPRLabel", CLALabelYes>>, <<"CreatePRComment", "">> >>
    /\ labels = {CLALabelYes}
    /\ \E i \in 1..Len(comments) : comments[i].body = alreadySigned(PRUser)


\* the calls of the pass that change a label or create a comment
MutationCalls ==
    CallsOf("AddPRLabel") \cup CallsOf("RemovePRLabel") \cup CallsOf("CreatePRComment")

\* C14 as stated: in every pass that gets past classification, in either
\* branch and whatever the labels, every comment that starts with the
\* current or the legacy guidance title gets a DeletePRComment call, and all
\* these calls come before the first AddPRLabel, RemovePRLabel or
\* CreatePRComment call.
C14_AsStated ==
    (pass.started /\ pass.classified) =>
        /\ GuideIds(pass.preComments) \subseteq DeletedIds
        /\ \A d \in CallsOf("DeletePRComment") : \A m \in MutationCalls : d < m

\* C14 amended: a pass that gets past classification first calls
\* ListPRComments; when that call succeeds, every comment that starts with
\* the current or the legacy guidance title gets exactly one DeletePRComment
\* call, in either branch and whatever the labels, and when it fails none
\* does; all DeletePRComment calls come before the first AddPRLabel,
\* RemovePRLabel or CreatePRComment call.
C14_DeletionFirst ==
    (pass.started /\ pass.classified) =>
        /\ pass.calls # <<>> /\ pass.calls[1].op = "ListPRComments"
        /\ CallsOf("ListPRComments") = {1}
        /\ DeletedIds = IF pass.calls[1].ok THEN GuideIds(pass.preComments) ELSE {}
        /\ Cardinality(CallsOf("DeletePRComment")) = Cardinality(DeletedIds)
        /\ \A d \in CallsOf("DeletePRComment") : \A m \in MutationCalls : d < m

\* a pass with an empty unsigned set on a pull request with a guidance
\* comment and cla_label_no: the comment is deleted, then the labels are
\* swapped
C14_Witness ==
    /\ pass.started /\ pass.classified /\ pass.unsigned = <<>>
    /\ GuideCount(pass.preComments) = 1
    /\ pass.seen = {CLALabelNo}
    /\ Steps(pass.calls) = << <<"ListPRComments", "">>, <<"DeletePRComment", "">>,
                              <<"RemovePRLabel", CLALabelNo>>, <<"AddPRLabel", CLALabelYes>> >>
    /\ AllCallsSucceeded
    /\ GuideCount(comments) = 0


\* the label calls of the pass by name and label, in order
LabelSteps ==
    SelectSeq(Steps(pass.calls), LAMBDA s : s[1] \in {"AddPRLabel", "RemovePRLabel"})

\* C15: a pass makes at most one CreatePRComment call.  With a non-empty
\* unsigned set the call is always made and its body is the guidance
\* comment for that set; with an empty unsigned set no guidance comment is
\* created; a pass triggered by a pull request event with an empty unsigned
\* set creates no comment at all, and with the labels {cla_label_no} it
\* removes cla_label_no and adds cla_label_yes.
C15_OneCommentPerPass ==
    pass.started =>
        /\ Cardinality(CallsOf("CreatePRComment")) <= 1
        /\ ~pass.classified => pass.calls = <<>>
        /\ (pass.classified /\ pass.unsigned # <<>>) =>
              /\ Cardinality(CallsOf("CreatePRComment")) = 1
              /\ \A i \in CallsOf("CreatePRComment") :
                    /\ IsGuidance(pass.calls[i].body)
                    /\ pass.calls[i].body = signGuide(generateUnSignComment(pass.unsigned))
        /\ (pass.classified /\ pass.unsigned = <<>>) =>
              /\ \A i \in CallsOf("CreatePRComment") : ~IsGuidance(pass.calls[i].body)
              /\ GuideIds(comments) \subseteq GuideIds(pass.preComments)
        /\ (pass.classified /\ pass.unsigned = <<>> /\ pass.handler = "handlePREvent") =>
              /\ CallsOf("CreatePRComment") = {}
              /\ Len(comments) <= Len(pass.preComments)
              /\ pass.seen = {CLALabelNo} =>
                    LabelSteps = << <<"RemovePRLabel", CLALabelNo>>, <<"AddPRLabel", CLALabelYes>> >>

\* a pass triggered by a pull request event that carried {cla_label_no},
\* with every commit signed and a guidance comment on the pull request: the
\* comment is deleted, the labels are swapped, nothing is created
C15_Witness ==
    /\ pass.started /\ pass.classified /\ pass.handler = "handlePREvent"
    /\ pass.unsigned = <<>> /\ pass.seen = {CLALabelNo} /\ pass.preLabels = {CLALabelNo}
    /\ Len(pass.preComments) = 1 /\ IsGuidance(pass.preComments[1].body)
    /\ CallsOf("DeletePRComment") # {} /\ CallsOf("CreatePRComment") = {}
    /\ AllCallsSucceeded
    /\ labels = {CLALabelYes} /\ comments = <<>>


\* the committer of c is the identity to check: check_by_committer is set,
\* c has a committer and it matches the lite-PR override on neither field
CommitterCounts(c) ==
    /\ byCommitter
    /\ ~c.nilCommit /\ ~c.committer.nil
    /\ c.committer.email # LitePRCommitter.email
    /\ c.committer.name # LitePRCommitter.name

\* the email the claim gives for commit c
ClaimedEmail(c) ==
    IF CommitterCounts(c) THEN c.committer.email
    ELSE IF ~c.nilCommit /\ ~c.author.nil THEN c.author.email
    ELSE <<>>

\* C16: getAuthorOfCommit returns the committer's email exactly when
\* check_by_committer is true, the commit has a committer and the committer
\* matches the lite-PR override on neither email nor name; otherwise the
\* author's email when there is an author and the empty string when not.
\* The pass puts that email, and no other, to the signing service.
C16_IdentityResolution ==
    /\ \A i \in 1..Len(commits) :
          getAuthorOfCommit(commits[i], byCommitter) = ClaimedEmail(commits[i])
    /\ (pass.started /\ pass.classified /\ Len(commits) = 1) =>
          pass.queries = IF IsValidEmail(Trim(ClaimedEmail(commits[1])))
                         THEN <<Trim(ClaimedEmail(commits[1]))>>
                         ELSE <<>>

\* a pass with check_by_committer set over a commit whose committer has the
\* lite-PR name but another email: the author's email was queried
C16_Witness ==
    /\ pass.started /\ pass.classified /\ byCommitter
    /\ Len(commits) = 1
    /\ ~commits[1].nilCommit /\ ~commits[1].committer.nil /\ ~commits[1].author.nil
    /\ commits[1].committer.name = LitePRCommitter.name
    /\ commits[1].committer.email # LitePRCommitter.email
    /\ pass.queries = <<commits[1].author.email>>


\* the email pass record r resolved for its i-th commit, trimmed
EmailIn(r, i) == Trim(getAuthorOfCommit(r.cs[i], byCommitter))

\* C17: the cache of a pass is its own.  A pass starts its loop with an
\* empty cache; whatever else runs in between, every answer in its cache
\* and every verdict on a valid email is an answer the signing service gave
\* this pass; and a pass during which the service did not change has
\* classified every commit by the service's present answer, whatever
\* earlier or interleaved passes were told.
C17_CacheIsPassLocal ==
    \A p \in Passes :
        LET r == pass[p]
        IN /\ (r.pc = "classify" /\ r.i = 1) => DOMAIN r.acc.result = {}
           /\ \A e \in DOMAIN r.acc.result : <<e, r.acc.result[e]>> \in r.heard
           /\ \A e \in DOMAIN r.acc.result : \E k \in 1..Len(r.acc.queries) : r.acc.queries[k] = e
           /\ \A k \in 1..Len(r.acc.unsigned) :
                 \A i \in 1..Len(r.cs) :
                     (r.cs[i] = r.acc.unsigned[k] /\ IsValidEmail(EmailIn(r, i)))
                         => <<EmailIn(r, i), FALSE>> \in r.heard
           /\ (r.pc = "done" /\ r.fresh) =>
                 \A i \in 1..Len(r.cs) :
                     (\E k \in 1..Len(r.acc.unsigned) : r.acc.unsigned[k] = r.cs[i])
                         <=> (~IsValidEmail(EmailIn(r, i)) \/ EmailIn(r, i) \notin signedDB)

\* pass p was told 'not signed' for an email and has classified its second
\* commit, of the same email, from its cache; pass q began later, after the
\* service had changed, was told 'signed' for that email and has ended
C17_Witness ==
    /\ pass["p"].pc = "classify" /\ pass["p"].i = 3 /\ ~pass["p"].fresh
    /\ pass["p"].heard = {<<EmailA, FALSE>>}
    /\ Len(pass["p"].acc.queries) = 1
    /\ pass["p"].acc.unsigned = pass["p"].cs
    /\ pass["q"].pc = "done" /\ pass["q"].fresh
    /\ pass["q"].heard = {<<EmailA, TRUE>>}
    /\ pass["q"].acc.result[EmailA] = TRUE
    /\ pass["q"].acc.unsigned = <<>>


\* the pull request was in a wrong visible state when the pass began: both
\* labels, neither label, or more than one guidance comment
WrongBefore ==
    \/ Cardinality(pass.preLabels \cap CLALabels) # 1
    \/ GuideCount(pass.preComments) > 1

\* C18: a pass on a pull request in a wrong visible state (as a failed
\* label or delete call leaves it) that sees the pull request's actual
\* labels and in which no call fails ends with exactly the label of its
\* verdict and at most one guidance comment: none when the unsigned set is
\* empty.
C18_SelfHealing ==
    (/\ pass.started /\ pass.classified /\ AllCallsSucceeded
     /\ pass.seen = pass.preLabels
     /\ WrongBefore)
        => /\ pass.err = "nil"
           /\ labels \cap CLALabels = {VerdictLabel}
           /\ GuideCount(comments) = (IF pass.unsigned = <<>> THEN 0 ELSE 1)

\* a pass on a pull request with both labels and two guidance comments,
\* with an unsigned commit: cla_label_yes is removed, both comments are
\* deleted and one is created
C18_Witness ==
    /\ pass.started /\ pass.classified /\ AllCallsSucceeded
    /\ pass.seen = pass.preLabels /\ pass.preLabels = CLALabels
    /\ GuideCount(pass.preComments) = 2
    /\ pass.unsigned # <<>>
    /\ Cardinality(CallsOf("DeletePRComment")) = 2
    /\ labels = {CLALabelNo} /\ GuideCount(comments) = 1


\* the label opposed to the verdict
OpposedLabel == IF pass.unsigned = <<>> THEN CLALabelNo ELSE CLALabelYes

\* C19: the label calls of a pass follow from the event's label set and the
\* verdict alone.  A pass makes at most one RemovePRLabel and at most one
\* AddPRLabel call, the remove first; the remove is for the label opposed
\* to the verdict and made only if the event's label set has it, the add is
\* for the verdict's label and made only if the event's label set lacks
\* it; a pass that does not get past classification makes none.
C19_LabelCallsFollowVerdict ==
    pass.started =>
        /\ Cardinality(CallsOf("AddPRLabel")) <= 1
        /\ Cardinality(CallsOf("RemovePRLabel")) <= 1
        /\ \A i \in CallsOf("RemovePRLabel") :
              /\ pass.calls[i].label = OpposedLabel
              /\ pass.calls[i].label \in pass.seen
        /\ \A i \in CallsOf("AddPRLabel") :
              /\ pass.calls[i].label = VerdictLabel
              /\ pass.calls[i].label \notin pass.seen
        /\ ~pass.classified => LabelCalls = {}
        /\ pass.classified =>
              LabelSteps =
                  (IF OpposedLabel \in pass.seen
                   THEN << <<"RemovePRLabel", OpposedLabel>> >> ELSE <<>>)
                  \o (IF VerdictLabel \notin pass.seen
                      THEN << <<"AddPRLabel", VerdictLabel>> >> ELSE <<>>)

\* a pass with an empty unsigned set whose event carried {cla_label_no}
\* while the pull request has {cla_label_yes}: it removes cla_label_no and
\* adds cla_label_yes, as the event's label set says
C19_Witness ==
    /\ pass.started /\ pass.classified /\ pass.unsigned = <<>>
    /\ pass.seen = {CLALabelNo} /\ pass.preLabels = {CLALabelYes}
    /\ LabelSteps = << <<"RemovePRLabel", CLALabelNo>>, <<"AddPRLabel", CLALabelYes>> >>
    /\ NoLabelCallFailed
    /\ labels = {CLALabelYes}


\* the calls of the pass other than those of deleteSignGuide
OtherSteps(calls) ==
    SelectSeq(Steps(calls), LAMBDA s : s[1] \notin {"ListPRComments", "DeletePRComment"})

\* C20: a pass calls DeletePRComment only for comments whose body starts
\* with the current or the legacy guidance title; every other comment
\* ('already signed' comments, comments of people, also one that quotes
\* the title further down) is on the pull request after the pass as it was
\* before; and when ListPRComments fails the pass deletes nothing and makes
\* the label and comment calls it makes otherwise.
C20_OthersUntouched ==
    pass.started =>
        /\ \A i \in CallsOf("DeletePRComment") :
              \E k \in 1..Len(pass.preComments) :
                  /\ pass.preComments[k].id = pass.calls[i].id
                  /\ IsGuidance(pass.preComments[k].body)
        /\ \A k \in 1..Len(pass.preComments) :
              ~IsGuidance(pass.preComments[k].body)
                  => \E j \in 1..Len(comments) : comments[j] = pass.preComments[k]
        /\ (pass.classified /\ FailedCalls("ListPRComments") # {}) =>
              /\ CallsOf("DeletePRComment") = {}
              /\ \A k \in 1..Len(pass.preComments) :
                    \E j \in 1..Len(comments) : comments[j] = pass.preComments[k]
              /\ OtherSteps(pass.calls) = OtherSteps(FaultFreeCalls)

\* a pass on a pull request with an 'already signed' comment and a guidance
\* comment: the guidance comment is deleted, the other one stays
C20_Witness ==
    /\ pass.started /\ pass.classified /\ AllCallsSucceeded
    /\ Len(pass.preComments) = 2
    /\ \E k \in 1..2 :
          /\ pass.preComments[k].body = alreadySigned(PRUser)
          /\ IsGuidance(pass.preComments[3 - k].body)
          /\ DeletedIds = {pass.preComments[3 - k].id}
          /\ \E j \in 1..Len(comments) : comments[j] = pass.preComments[k]
    /\ GuideCount(comments) = 0

====
